---------------------------- MODULE Spec2Model ----------------------------
(***************************************************************************)
(* Type-name lookup of the protobuf-ts plugin framework (TypeNameLookup,   *)
(* composeTypeName).  Strings are TLA+ strings; an optional field of a     *)
(* descriptor (name?, package?) is a tuple of zero or one strings, <<>>    *)
(* standing for JavaScript's undefined.  Descriptors are objects with      *)
(* identity: the table works on identifiers, Desc gives their content.     *)
(***************************************************************************)
EXTENDS Integers, Sequences, FiniteSets, TLC

VARIABLES
    pc,          \* position of the single thread of control
    shape,       \* entry point taken: "list", "tree", "data", or a pure-function run
    descriptors, \* from(): the array a of the list overload
    parentOf,    \* from(): the parent provider b, or the tree's parent relation
    i,           \* from(): index of the for-of loop over a
    descriptor,  \* from(): loop variable descriptor
    ancestors,   \* from(): local ancestors
    p,           \* from(): local p
    data,        \* from(): local data, the constructor's argument
    names,       \* TypeNameLookup._names
    reverse,     \* TypeNameLookup._reverse
    error,       \* which assertion threw, "" if none
    failedAt,    \* index of the data entry at which the constructor threw, 0 if none
    result,      \* what the last lookup call returned or threw
    input,       \* argument of a pure-function run
    output       \* results of a pure-function run

vars == <<pc, shape, descriptors, parentOf, i, descriptor, ancestors, p, data,
          names, reverse, error, failedAt, result, input, output>>

-----------------------------------------------------------------------------
(* Bounds *)

MaxData == 2     \* entries of the constructor's data array
MaxNest == 2     \* enclosing messages between the file and a type
MaxList == 2     \* descriptors handed to from(descriptors, parentOf)
MaxClimb == 3    \* iterations of the climbing loop that are followed
MaxChain == 3    \* descriptors handed to composeTypeName in a pure run
MaxStr == 4      \* characters of a string handed to normalizeTypeName in a pure run

-----------------------------------------------------------------------------
(* Strings *)

\* String.prototype.startsWith
startsWith(s, prefix) ==
    Len(s) >= Len(prefix) /\ SubSeq(s, 1, Len(prefix)) = prefix

\* String.prototype.substring(start)
substring(s, start) ==
    IF start >= Len(s) THEN "" ELSE SubSeq(s, start + 1, Len(s))

\* Array.prototype.join('.')
RECURSIVE join(_)
join(parts) ==
    IF Len(parts) = 0 THEN ""
    ELSE IF Len(parts) = 1 THEN parts[1]
    ELSE parts[1] \o "." \o join(Tail(parts))

Alphabet == {".", "a", "b"}

RECURSIVE StringsUpTo(_)
StringsUpTo(n) ==
    IF n = 0 THEN {""}
    ELSE LET S == StringsUpTo(n - 1) IN S \cup {s \o c : s \in S, c \in Alphabet}

RECURSIVE SeqsUpTo(_, _)
SeqsUpTo(S, n) ==
    IF n = 0 THEN {<<>>}
    ELSE LET T == SeqsUpTo(S, n - 1) IN T \cup {Append(t, x) : t \in T, x \in S}

Range(s) == {s[k] : k \in 1..Len(s)}

NoRepeat(s) == \A j, k \in 1..Len(s) : j # k => s[j] # s[k]

-----------------------------------------------------------------------------
(* Descriptors *)

undefined == "undefined"

Desc ==
    [ FileA  |-> [kind |-> "File",    name |-> <<"a.proto">>, package |-> <<"pkg">>],
      FileB  |-> [kind |-> "File",    name |-> <<"b.proto">>, package |-> <<"">>],
      Outer  |-> [kind |-> "Message", name |-> <<"Outer">>,   package |-> <<>>],
      Inner  |-> [kind |-> "Message", name |-> <<"Inner">>,   package |-> <<>>],
      Outer2 |-> [kind |-> "Message", name |-> <<"Outer">>,   package |-> <<>>],
      Fld    |-> [kind |-> "Field",   name |-> <<"f">>,       package |-> <<>>] ]

Pool == DOMAIN Desc

\* FileDescriptorProto.is
IsFileDescriptorProto(d) == d.kind = "File"

\* isAnyTypeDescriptorProto: a message, an enum or a service
isAnyTypeDescriptorProto(d) == d.kind \in {"Message", "Enum", "Service"}

Files == {x \in Pool : IsFileDescriptorProto(Desc[x])}
Types == {x \in Pool : isAnyTypeDescriptorProto(Desc[x])}
Messages == {x \in Pool : Desc[x].kind = "Message"}


-----------------------------------------------------------------------------
(* composeTypeName *)

Thrown == [ok |-> FALSE, name |-> ""]

\* composeTypeName with the package pushed even when it is empty
composeTypeName_AlwaysPackage(descs) ==
    IF ~(Len(descs) > 0) THEN Thrown
    ELSE LET first == Head(descs)
             rest == Tail(descs)
         IN  IF ~IsFileDescriptorProto(first) THEN Thrown
             ELSE IF Len(rest) = 0 \/ ~isAnyTypeDescriptorProto(rest[Len(rest)]) THEN Thrown
             ELSE IF \E k \in 1..Len(rest) : rest[k].name = <<>> THEN Thrown
             ELSE [ok |-> TRUE,
                   name |-> join((IF first.package # <<>> THEN first.package ELSE <<"">>)
                                 \o [k \in 1..Len(rest) |-> rest[k].name[1]])]

\* composeTypeName without the assertion on the last element
composeTypeName_AnyLast(descs) ==
    IF ~(Len(descs) > 0) THEN Thrown
    ELSE LET first == Head(descs)
             rest == Tail(descs)
         IN  IF ~IsFileDescriptorProto(first) THEN Thrown
             ELSE IF \E k \in 1..Len(rest) : rest[k].name = <<>> THEN Thrown
             ELSE [ok |-> TRUE,
                   name |-> join((IF first.package # <<>> /\ first.package # <<"">>
                                  THEN first.package ELSE <<>>)
                                 \o [k \in 1..Len(rest) |-> rest[k].name[1]])]

\* The fully qualified name of the last of descs, or Thrown when an assertion
\* fails.  first = mid.shift(), last = mid.pop(): with one element mid is empty
\* after the shift and last is undefined, which is no type descriptor.
composeTypeName(descs) ==
    IF ~(Len(descs) > 0) THEN Thrown
    ELSE LET first == Head(descs)
             shifted == Tail(descs)
             hasLast == Len(shifted) > 0
             last == shifted[Len(shifted)]
             mid == SubSeq(shifted, 1, Len(shifted) - 1)
         IN  IF ~IsFileDescriptorProto(first) THEN Thrown
             ELSE IF ~hasLast \/ ~isAnyTypeDescriptorProto(last) THEN Thrown
             ELSE LET pkg == first.package
                      parts0 == IF pkg # <<>> /\ pkg # <<"">> THEN pkg ELSE <<>>
                      items == Append(mid, last)
                  IN  IF \E k \in 1..Len(items) : items[k].name = <<>> THEN Thrown
                      ELSE [ok |-> TRUE,
                            name |-> join(parts0 \o
                                          [k \in 1..Len(items) |-> items[k].name[1]])]

-----------------------------------------------------------------------------
(* TypeNameLookup: constructor *)

EmptyMap == [n \in {} |-> undefined]

\* Map.prototype.set
MapSet(m, key, value) ==
    [k \in DOMAIN m \cup {key} |-> IF k = key THEN value ELSE m[k]]

Contents(chain) == [k \in 1..Len(chain) |-> Desc[chain[k]]]

\* One iteration of the constructor's loop with the assertion left out
constructorStep_NoAssert(nm, rv, entry) ==
    LET c == composeTypeName(Contents(Append(entry.ancestors, entry.descriptor)))
    IN  IF ~c.ok THEN [ok |-> FALSE, error |-> "MalformedChain", names |-> nm, reverse |-> rv]
        ELSE [ok |-> TRUE, error |-> "",
              names |-> MapSet(nm, c.name, entry.descriptor),
              reverse |-> MapSet(rv, entry.descriptor, c.name)]

\* One iteration of the constructor's loop with reverse.set left out
constructorStep_NoReverse(nm, rv, entry) ==
    LET c == composeTypeName(Contents(Append(entry.ancestors, entry.descriptor)))
    IN  IF ~c.ok THEN [ok |-> FALSE, error |-> "MalformedChain", names |-> nm, reverse |-> rv]
        ELSE IF c.name \in DOMAIN nm
             THEN [ok |-> FALSE, error |-> "DuplicateName", names |-> nm, reverse |-> rv]
        ELSE [ok |-> TRUE, error |-> "",
              names |-> MapSet(nm, c.name, entry.descriptor),
              reverse |-> rv]

\* One iteration of the constructor's loop: compose, assert(!names.has(name)),
\* names.set, reverse.set
constructorStep(nm, rv, entry) ==
    LET c == composeTypeName(Contents(Append(entry.ancestors, entry.descriptor)))
    IN  IF ~c.ok THEN [ok |-> FALSE, error |-> "MalformedChain", names |-> nm, reverse |-> rv]
        ELSE IF c.name \in DOMAIN nm
             THEN [ok |-> FALSE, error |-> "DuplicateName", names |-> nm, reverse |-> rv]
        ELSE [ok |-> TRUE, error |-> "",
              names |-> MapSet(nm, c.name, entry.descriptor),
              reverse |-> MapSet(rv, entry.descriptor, c.name)]

RECURSIVE constructorLoop(_, _, _, _)
constructorLoop(d, k, nm, rv) ==
    IF k > Len(d) THEN [ok |-> TRUE, error |-> "", at |-> 0, names |-> nm, reverse |-> rv]
    ELSE LET s == constructorStep(nm, rv, d[k])
         IN  IF ~s.ok
             THEN [ok |-> FALSE, error |-> s.error, at |-> k,
                   names |-> EmptyMap, reverse |-> EmptyMap]
             ELSE constructorLoop(d, k + 1, s.names, s.reverse)

\* new TypeNameLookup(data): the two maps, or the assertion that threw and where
constructor(d) == constructorLoop(d, 1, EmptyMap, EmptyMap)

-----------------------------------------------------------------------------
(* TypeNameLookup: lookups *)

\* normalizeTypeName that drops the first character whatever it is
normalizeTypeName_AlwaysStrip(typeName) == substring(typeName, 1)

\* normalizeTypeName that strips nothing
normalizeTypeName_Identity(typeName) == typeName

normalizeTypeName(typeName) ==
    IF startsWith(typeName, ".") THEN substring(typeName, 1) ELSE typeName

\* resolveTypeName: ok = FALSE when the assertion d !== undefined throws
resolveTypeName(nm, typeName) ==
    LET n == normalizeTypeName(typeName)
    IN  IF n \in DOMAIN nm THEN [ok |-> TRUE, descriptor |-> nm[n]]
        ELSE [ok |-> FALSE, descriptor |-> undefined]

\* peekTypeName that looks the name up as given
peekTypeName_Raw(nm, typeName) ==
    IF typeName \in DOMAIN nm THEN nm[typeName] ELSE undefined

\* peekTypeName: the descriptor, or undefined
peekTypeName(nm, typeName) ==
    LET n == normalizeTypeName(typeName)
    IN  IF n \in DOMAIN nm THEN nm[n] ELSE undefined

\* makeTypeName: ok = FALSE when the assertion n !== undefined throws
makeTypeName(rv, d) ==
    IF d \in DOMAIN rv THEN [ok |-> TRUE, name |-> rv[d]]
    ELSE [ok |-> FALSE, name |-> ""]

-----------------------------------------------------------------------------
(* Inputs *)

\* Parent relations: a file and a field have no parent here, a message has
\* none, a file or another message, and following parents always ends.
RECURSIVE ReachesRoot(_, _, _)
ReachesRoot(f, x, n) ==
    IF x = undefined THEN TRUE
    ELSE IF n = 0 THEN FALSE
    ELSE ReachesRoot(f, f[x], n - 1)

ParentFns ==
    LET raw == [Messages -> Files \cup Messages \cup {undefined}]
        ext(g) == [x \in Pool |-> IF x \in Messages THEN g[x] ELSE undefined]
    IN  {ext(g) : g \in {h \in raw :
                           \A x \in Messages : ReachesRoot(ext(h), x, Cardinality(Pool))}}

\* IDescriptorTree.ancestorsOf: the enclosing descriptors, root first
RECURSIVE ancestorsOf(_, _)
ancestorsOf(f, d) ==
    IF f[d] = undefined THEN <<>>
    ELSE Append(ancestorsOf(f, f[d]), f[d])

\* The types a tree holds: those that sit, directly or not, in a file
TreeTypes(f) ==
    {t \in Types : LET a == ancestorsOf(f, t) IN Len(a) > 0 /\ a[1] \in Files}

\* IDescriptorTree.visitTypes with the callback of from(): one entry per visited type
RECURSIVE visitTypes(_, _)
visitTypes(f, order) ==
    IF order = <<>> THEN <<>>
    ELSE <<[descriptor |-> Head(order), ancestors |-> ancestorsOf(f, Head(order))]>>
         \o visitTypes(f, Tail(order))

\* Ancestor arrays handed to the constructor with type t: none, or a file
\* followed by enclosing messages
ChainsFor(t) ==
    {<<>>} \cup
    {<<f>> \o m : f \in Files,
                  m \in {q \in SeqsUpTo(Messages \ {t}, MaxNest) : NoRepeat(q)}}

Entries == UNION {{[descriptor |-> t, ancestors |-> c] : c \in ChainsFor(t)} : t \in Types}

\* Names asked of a table
QueryNames ==
    {"pkg.Outer", ".pkg.Outer", "pkg.Outer.Inner", ".pkg.Outer.Inner",
     "Outer", ".Outer", "..Outer", "pkg.Missing", "", "."}

\* Descriptor contents handed to composeTypeName in a pure run
DescUniverse ==
    [kind : {"File"}, name : {<<>>, <<"a">>}, package : {<<>>, <<"">>, <<"p">>, <<"p.q">>}]
    \cup
    [kind : {"Message", "Enum", "Service", "Field"},
     name : {<<>>, <<"a">>, <<"b">>}, package : {<<>>}]

NoResult == [op |-> "", arg |-> "", ok |-> TRUE, value |-> ""]

-----------------------------------------------------------------------------
(* Initial states *)

NoTable ==
    /\ names = EmptyMap /\ reverse = EmptyMap
    /\ error = "" /\ failedAt = 0 /\ result = NoResult

NoLocals ==
    /\ i = 0 /\ descriptor = undefined /\ ancestors = <<>> /\ p = undefined

\* from(descriptors, parentProvider)
InitList ==
    /\ shape = "list" /\ pc = "from"
    /\ descriptors \in SeqsUpTo(Pool, MaxList)
    /\ parentOf \in ParentFns
    /\ i = 1 /\ descriptor = undefined /\ ancestors = <<>> /\ p = undefined
    /\ data = <<>> /\ NoTable
    /\ input = <<>> /\ output = <<>>

\* from(tree): descriptors holds the order in which the tree visits its types
InitTree ==
    /\ shape = "tree" /\ pc = "from"
    /\ parentOf \in ParentFns
    /\ descriptors \in {o \in SeqsUpTo(Types, Cardinality(Types)) :
                          NoRepeat(o) /\ Range(o) = TreeTypes(parentOf)}
    /\ NoLocals /\ data = <<>> /\ NoTable
    /\ input = <<>> /\ output = <<>>

\* new TypeNameLookup(data)
InitData ==
    /\ shape = "data" /\ pc = "construct"
    /\ data \in SeqsUpTo(Entries, MaxData)
    /\ descriptors = <<>> /\ parentOf = EmptyMap
    /\ NoLocals /\ NoTable
    /\ input = <<>> /\ output = <<>>

\* from() called with an array and no parent provider, or with a tree and one
InitMismatch ==
    /\ shape = "mismatch" /\ pc = "from"
    /\ \/ descriptors \in SeqsUpTo(Pool, MaxList) /\ parentOf = EmptyMap
       \/ descriptors = <<>> /\ parentOf \in ParentFns
    /\ NoLocals /\ data = <<>> /\ NoTable
    /\ input = <<>> /\ output = <<>>

Init == InitList \/ InitTree \/ InitData \/ InitMismatch

-----------------------------------------------------------------------------
(* from() *)

FromVars == <<descriptors, parentOf, i, descriptor, ancestors, p, data>>
TableVars == <<names, reverse, error, failedAt, result>>
PureVars == <<input, output>>

\* for (let descriptor of a): not a type descriptor, continue
FromSkip ==
    /\ pc = "from" /\ shape = "list" /\ i <= Len(descriptors)
    /\ ~isAnyTypeDescriptorProto(Desc[descriptors[i]])
    /\ i' = i + 1
    /\ UNCHANGED <<pc, shape, descriptors, parentOf, descriptor, ancestors, p, data>>
    /\ UNCHANGED TableVars /\ UNCHANGED PureVars

\* let ancestors = []; let p = b(descriptor)
FromEnter ==
    /\ pc = "from" /\ shape = "list" /\ i <= Len(descriptors)
    /\ isAnyTypeDescriptorProto(Desc[descriptors[i]])
    /\ descriptor' = descriptors[i]
    /\ ancestors' = <<>>
    /\ p' = parentOf[descriptors[i]]
    /\ pc' = "climb"
    /\ UNCHANGED <<shape, descriptors, parentOf, i, data>>
    /\ UNCHANGED TableVars /\ UNCHANGED PureVars

\* while (p) { ancestors.unshift(p); p = b(descriptor); }
Climb ==
    /\ pc = "climb" /\ p # undefined
    /\ Len(ancestors) < MaxClimb
    /\ ancestors' = <<p>> \o ancestors
    /\ p' = parentOf[descriptor]
    /\ UNCHANGED <<pc, shape, descriptors, parentOf, i, descriptor, data>>
    /\ UNCHANGED TableVars /\ UNCHANGED PureVars

\* the loop is left: data.push({descriptor, ancestors})
Push ==
    /\ pc = "climb" /\ p = undefined
    /\ data' = Append(data, [descriptor |-> descriptor, ancestors |-> ancestors])
    /\ i' = i + 1
    /\ pc' = "from"
    /\ UNCHANGED <<shape, descriptors, parentOf, descriptor, ancestors, p>>
    /\ UNCHANGED TableVars /\ UNCHANGED PureVars

\* the for loop is over: return new TypeNameLookup(data)
FromListDone ==
    /\ pc = "from" /\ shape = "list" /\ i > Len(descriptors)
    /\ pc' = "construct"
    /\ UNCHANGED <<shape>> /\ UNCHANGED FromVars
    /\ UNCHANGED TableVars /\ UNCHANGED PureVars

\* a.visitTypes(descriptor => data.push({descriptor, ancestors: a.ancestorsOf(descriptor)}))
FromTree ==
    /\ pc = "from" /\ shape = "tree"
    /\ data' = visitTypes(parentOf, descriptors)
    /\ pc' = "construct"
    /\ UNCHANGED <<shape, descriptors, parentOf, i, descriptor, ancestors, p>>
    /\ UNCHANGED TableVars /\ UNCHANGED PureVars

-----------------------------------------------------------------------------
(* The constructor.  The arguments and locals of from(), and the           *)
(* constructor's argument, end with the call: what stays is the table, or  *)
(* the assertion that threw.                                               *)

DropLocals ==
    /\ descriptors' = <<>> /\ parentOf' = EmptyMap /\ i' = 0
    /\ descriptor' = undefined /\ ancestors' = <<>> /\ p' = undefined
    /\ data' = <<>>

\* neither overload matches: assert(false)
FromMismatch ==
    /\ pc = "from" /\ shape = "mismatch"
    /\ pc' = "failed"
    /\ error' = "AssertFalse"
    /\ DropLocals
    /\ UNCHANGED <<shape, names, reverse, failedAt, result>> /\ UNCHANGED PureVars

ConstructOk ==
    /\ pc = "construct"
    /\ LET t == constructor(data)
       IN  /\ t.ok
           /\ names' = t.names
           /\ reverse' = t.reverse
    /\ pc' = "built"
    /\ DropLocals
    /\ UNCHANGED <<shape, error, failedAt, result>> /\ UNCHANGED PureVars

ConstructThrow ==
    /\ pc = "construct"
    /\ LET t == constructor(data)
       IN  /\ ~t.ok
           /\ error' = t.error
           /\ failedAt' = t.at
    /\ pc' = "failed"
    /\ DropLocals
    /\ UNCHANGED <<shape, names, reverse, result>> /\ UNCHANGED PureVars

-----------------------------------------------------------------------------
(* Lookups on a constructed table *)

LookupFrame ==
    /\ UNCHANGED <<pc, shape>> /\ UNCHANGED FromVars /\ UNCHANGED PureVars
    /\ UNCHANGED <<error, failedAt>>

NormalizeTypeName(n) ==
    /\ pc = "built"
    /\ result' = [op |-> "normalizeTypeName", arg |-> n, ok |-> TRUE,
                  value |-> normalizeTypeName(n)]
    /\ UNCHANGED <<names, reverse>> /\ LookupFrame

ResolveTypeName(n) ==
    /\ pc = "built"
    /\ LET r == resolveTypeName(names, n)
       IN  result' = [op |-> "resolveTypeName", arg |-> n, ok |-> r.ok,
                      value |-> r.descriptor]
    /\ UNCHANGED <<names, reverse>> /\ LookupFrame

\* peekTypeName that remembers a miss in the table
PeekTypeName_Caching(n) ==
    /\ pc = "built"
    /\ result' = [op |-> "peekTypeName", arg |-> n, ok |-> TRUE,
                  value |-> peekTypeName(names, n)]
    /\ names' = IF peekTypeName(names, n) = undefined
                THEN MapSet(names, normalizeTypeName(n), undefined) ELSE names
    /\ UNCHANGED reverse /\ LookupFrame

PeekTypeName(n) ==
    /\ pc = "built"
    /\ result' = [op |-> "peekTypeName", arg |-> n, ok |-> TRUE,
                  value |-> peekTypeName(names, n)]
    /\ UNCHANGED <<names, reverse>> /\ LookupFrame

MakeTypeName(d) ==
    /\ pc = "built"
    /\ LET r == makeTypeName(reverse, d)
       IN  result' = [op |-> "makeTypeName", arg |-> d, ok |-> r.ok, value |-> r.name]
    /\ UNCHANGED <<names, reverse>> /\ LookupFrame

Next ==
    \/ FromSkip
    \/ FromEnter
    \/ Climb
    \/ Push
    \/ FromListDone
    \/ FromTree
    \/ FromMismatch
    \/ ConstructOk
    \/ ConstructThrow
    \/ \E n \in QueryNames : NormalizeTypeName(n)
    \/ \E n \in QueryNames : ResolveTypeName(n)
    \/ \E n \in QueryNames : PeekTypeName(n)
    \/ \E d \in Types : MakeTypeName(d)

Spec == Init /\ [][Next]_vars

-----------------------------------------------------------------------------
(* composeTypeName on its own *)

InitCompose ==
    /\ shape = "compose" /\ pc = "compose"
    /\ input \in SeqsUpTo(DescUniverse, MaxChain)
    /\ output = Thrown
    /\ descriptors = <<>> /\ parentOf = EmptyMap /\ data = <<>>
    /\ NoLocals /\ NoTable

Compose ==
    /\ pc = "compose"
    /\ output' = composeTypeName(input)
    /\ pc' = "composed"
    /\ UNCHANGED <<shape, input>> /\ UNCHANGED FromVars /\ UNCHANGED TableVars

NextCompose == Compose

SpecCompose == InitCompose /\ [][NextCompose]_vars

-----------------------------------------------------------------------------
(* normalizeTypeName on its own, applied once and then to its own result *)

InitNormalize ==
    /\ shape = "normalize" /\ pc = "normalize"
    /\ input \in StringsUpTo(MaxStr)
    /\ output = <<>>
    /\ descriptors = <<>> /\ parentOf = EmptyMap /\ data = <<>>
    /\ NoLocals /\ NoTable

NormalizeOnce ==
    /\ pc = "normalize"
    /\ output' = <<normalizeTypeName(input)>>
    /\ pc' = "normalized"
    /\ UNCHANGED <<shape, input>> /\ UNCHANGED FromVars /\ UNCHANGED TableVars

NormalizeAgain ==
    /\ pc = "normalized"
    /\ output' = Append(output, normalizeTypeName(output[1]))
    /\ pc' = "renormalized"
    /\ UNCHANGED <<shape, input>> /\ UNCHANGED FromVars /\ UNCHANGED TableVars

NextNormalize == NormalizeOnce \/ NormalizeAgain

SpecNormalize == InitNormalize /\ [][NextNormalize]_vars

-----------------------------------------------------------------------------
(* What the claims speak of *)

Min(S) == CHOOSE x \in S : \A y \in S : x <= y

\* A chain (ancestors followed by the target) that composition accepts
WellFormedChain(descs) ==
    /\ Len(descs) > 0
    /\ descs[1].kind = "File"
    /\ descs[Len(descs)].kind \in {"Message", "Enum", "Service"}
    /\ \A k \in 2..Len(descs) : descs[k].name # <<>>

\* The qualified name: the package if it is not empty, then every local name
\* below the file, each new segment behind a period
RECURSIVE Qualify(_, _)
Qualify(prefix, rest) ==
    IF Len(rest) = 0 THEN prefix
    ELSE Qualify(IF prefix = "" THEN rest[1].name[1]
                 ELSE prefix \o "." \o rest[1].name[1], Tail(rest))

QualifiedName(descs) ==
    Qualify(IF descs[1].package = <<>> THEN "" ELSE descs[1].package[1], Tail(descs))

EntryChain(e) == Contents(Append(e.ancestors, e.descriptor))

AllWellFormed(d) == \A k \in 1..Len(d) : WellFormedChain(EntryChain(d[k]))

NoDuplicateNames(d) ==
    \A j, k \in 1..Len(d) :
        j # k => QualifiedName(EntryChain(d[j])) # QualifiedName(EntryChain(d[k]))

\* A step that runs the constructor on data
Constructs == pc = "construct" /\ pc' \in {"built", "failed"}

\* Names worth asking a table: the queries, its keys, and its keys behind a period
ProbeNames == QueryNames \cup DOMAIN names \cup {"." \o n : n \in DOMAIN names}

-----------------------------------------------------------------------------
(* C1 *)

\* C1: from(descriptors, parentOf) climbs from a type to its root: in the
\* climbing loop p is the parent of the ancestor found last (of the type itself
\* before the first), the ancestors collected are the nearest ones, root first,
\* so the loop ends after as many steps as the type has ancestors, and every
\* entry pushed carries the type's full root-first chain.
C1_ClimbsThroughSuccessiveParents ==
    (shape = "list" /\ pc \in {"from", "climb", "construct"}) =>
        /\ pc = "climb" =>
             LET chain == ancestorsOf(parentOf, descriptor)
                 n == Len(ancestors)
             IN  /\ n <= Len(chain)
                 /\ ancestors = SubSeq(chain, Len(chain) - n + 1, Len(chain))
                 /\ p = (IF n = 0 THEN parentOf[descriptor] ELSE parentOf[ancestors[1]])
        /\ \A k \in 1..Len(data) :
             data[k].ancestors = ancestorsOf(parentOf, data[k].descriptor)

-----------------------------------------------------------------------------
(* C2 *)

\* C2: when every chain of data is well formed and no two entries compose to
\* the same qualified name, the constructor builds a table, and for every
\* descriptor d of data resolveTypeName(makeTypeName(d)) is d.
C2_RoundTrip ==
    [][(Constructs /\ AllWellFormed(data) /\ NoDuplicateNames(data)) =>
         /\ pc' = "built"
         /\ \A k \in 1..Len(data) :
              LET d == data[k].descriptor
                  m == makeTypeName(reverse', d)
              IN  /\ m.ok
                  /\ resolveTypeName(names', m.name) = [ok |-> TRUE, descriptor |-> d]]_vars

\* A table of two types, one nested in the other, was built and the nested type
\* was resolved by the name makeTypeName gives it
C2_Witness ==
    /\ pc = "built" /\ shape = "data"
    /\ Cardinality(DOMAIN reverse) = 2
    /\ makeTypeName(reverse, "Inner") = [ok |-> TRUE, name |-> "pkg.Outer.Inner"]
    /\ result = [op |-> "resolveTypeName", arg |-> "pkg.Outer.Inner", ok |-> TRUE,
                 value |-> "Inner"]

-----------------------------------------------------------------------------
(* C3 *)

QN(d, k) == QualifiedName(EntryChain(d[k]))

\* C3 as stated: with well-formed chains the constructor throws exactly when
\* two distinct descriptors compose to the same name, at the first entry whose
\* name is already the key of a different descriptor; a name that belongs to
\* the same descriptor never makes it throw.
C3_FailsOnlyForDistinctDescriptors ==
    [][(Constructs /\ AllWellFormed(data)) =>
         LET clash == {k \in 1..Len(data) :
                         \E j \in 1..(k - 1) : /\ QN(data, j) = QN(data, k)
                                               /\ data[j].descriptor # data[k].descriptor}
         IN  IF clash = {} THEN pc' = "built"
             ELSE pc' = "failed" /\ error' = "DuplicateName" /\ failedAt' = Min(clash)]_vars

\* C3 amended: with well-formed chains the constructor throws exactly when two
\* entries of data compose to the same name, whether or not they carry the same
\* descriptor, and it throws at the first entry whose name is already a key.
C3_FailsOnAnyRepeatedName ==
    [][(Constructs /\ AllWellFormed(data)) =>
         LET repeat == {k \in 1..Len(data) :
                          \E j \in 1..(k - 1) : QN(data, j) = QN(data, k)}
         IN  IF repeat = {} THEN pc' = "built" /\ error' = ""
             ELSE pc' = "failed" /\ error' = "DuplicateName" /\ failedAt' = Min(repeat)]_vars

\* The constructor threw on the name of its second entry
C3_Witness ==
    pc = "failed" /\ shape = "data" /\ error = "DuplicateName" /\ failedAt = 2

-----------------------------------------------------------------------------
(* C10 *)

Inverse(nm, rv) ==
    /\ Cardinality(DOMAIN nm) = Cardinality(DOMAIN rv)
    /\ \A n \in DOMAIN nm :
         LET r == resolveTypeName(nm, n)
         IN  r.ok /\ makeTypeName(rv, r.descriptor) = [ok |-> TRUE, name |-> n]

\* C10 as stated: in every table the constructor builds, from any data, the two
\* maps have the same number of entries and makeTypeName(resolveTypeName(n)) = n
\* for every key n.
C10_MapsAreInverse == pc = "built" => Inverse(names, reverse)

\* C10 amended: the same, for data in which no descriptor occurs in two entries.
C10_MapsAreInverseForDistinctDescriptors ==
    [][(Constructs /\ pc' = "built" /\
        \A j, k \in 1..Len(data) : j # k => data[j].descriptor # data[k].descriptor) =>
         Inverse(names', reverse')]_vars

\* A table of two types was built and a key was mapped back to itself
C10_Witness ==
    /\ pc = "built"
    /\ Cardinality(DOMAIN names) = 2 /\ Cardinality(DOMAIN reverse) = 2
    /\ result.op = "makeTypeName" /\ result.ok
    /\ result.value \in DOMAIN names /\ names[result.value] = result.arg

-----------------------------------------------------------------------------
(* C4 *)

\* C4 as stated: normalizeTypeName returns for every string, and applied to its
\* own result it returns that result, also for strings with several leading
\* periods and for the empty string.
C4_NormalizeIdempotent ==
    /\ pc = "normalized" => Len(output) = 1
    /\ pc = "renormalized" => output[2] = output[1]

\* C4 amended: normalizeTypeName returns for every string, and applied to its
\* own result it returns that result for every string that does not begin with
\* two periods; of several leading periods it strips exactly one.
C4_NormalizeIdempotentUpToOnePeriod ==
    /\ pc = "normalized" =>
         /\ Len(output) = 1
         /\ input = (IF startsWith(input, ".") THEN "." ELSE "") \o output[1]
    /\ (pc = "renormalized" /\ ~startsWith(input, "..")) => output[2] = output[1]

\* A name with one leading period was normalized twice
C4_Witness ==
    pc = "renormalized" /\ input = ".a.b" /\ output = <<"a.b", "a.b">>

-----------------------------------------------------------------------------
(* C5 *)

\* C5: on a constructed table, for every name n, peekTypeName(n) is undefined
\* exactly when resolveTypeName(n) throws, and when resolveTypeName(n) returns
\* a descriptor peekTypeName(n) returns the same one.
C5_PeekAbsentIffResolveThrows ==
    pc = "built" =>
        \A n \in ProbeNames :
            LET r == resolveTypeName(names, n)
                q == peekTypeName(names, n)
            IN  /\ (q = undefined) <=> ~r.ok
                /\ r.ok => q = r.descriptor

\* On a table that holds names, a peek of a name written with its leading
\* period found the descriptor that resolveTypeName returns for it
C5_Witness ==
    /\ pc = "built"
    /\ result = [op |-> "peekTypeName", arg |-> ".pkg.Outer.Inner", ok |-> TRUE,
                 value |-> "Inner"]
    /\ resolveTypeName(names, ".pkg.Outer.Inner") = [ok |-> TRUE, descriptor |-> "Inner"]
    /\ ~resolveTypeName(names, "pkg.Missing").ok
    /\ peekTypeName(names, "pkg.Missing") = undefined

-----------------------------------------------------------------------------
(* C6 *)

\* C6: for every qualified name n of the table, resolveTypeName("." + n) and
\* resolveTypeName(n) return the same descriptor, the one registered under n,
\* and so do peekTypeName("." + n) and peekTypeName(n).
C6_LeadingPeriodEquivalent ==
    pc = "built" =>
        \A n \in DOMAIN names :
            /\ resolveTypeName(names, "." \o n) = [ok |-> TRUE, descriptor |-> names[n]]
            /\ resolveTypeName(names, n) = [ok |-> TRUE, descriptor |-> names[n]]
            /\ peekTypeName(names, "." \o n) = names[n]
            /\ peekTypeName(names, n) = names[n]

\* A name of the table was resolved in its leading-period form
C6_Witness ==
    /\ pc = "built"
    /\ "pkg.Outer" \in DOMAIN names
    /\ result = [op |-> "resolveTypeName", arg |-> ".pkg.Outer", ok |-> TRUE,
                 value |-> names["pkg.Outer"]]

-----------------------------------------------------------------------------
(* C7 *)

File(pkg) == [kind |-> "File", name |-> <<>>, package |-> <<pkg>>]
Message(n) == [kind |-> "Message", name |-> <<n>>, package |-> <<>>]

\* C7: for a well-formed chain the composed name is the package, if not empty,
\* then the local names below the file in order, joined with periods, with no
\* leading period; package my_package, ancestor MyMessage, target
\* MyNestedMessage give "my_package.MyMessage.MyNestedMessage", and the empty
\* package with target TopLevel gives "TopLevel".
C7_ComposedName ==
    /\ (pc = "composed" /\ WellFormedChain(input)) =>
         /\ output = [ok |-> TRUE, name |-> QualifiedName(input)]
         /\ ~startsWith(output.name, ".")
    /\ composeTypeName(<<File("my_package"), Message("MyMessage"),
                         Message("MyNestedMessage")>>)
         = [ok |-> TRUE, name |-> "my_package.MyMessage.MyNestedMessage"]
    /\ composeTypeName(<<File(""), Message("TopLevel")>>)
         = [ok |-> TRUE, name |-> "TopLevel"]

\* A nested type of a file without package was named
C7_Witness ==
    /\ pc = "composed"
    /\ Len(input) = 3 /\ input[1].package = <<"">>
    /\ input[2].name = <<"a">> /\ input[3].name = <<"b">>
    /\ output = [ok |-> TRUE, name |-> "a.b"]

-----------------------------------------------------------------------------
(* C8 *)

\* C8: composition throws exactly when the sequence is empty, its first element
\* is no file, its last element is no message, enum or service, or an element
\* other than the first has no name; otherwise it returns a name.
C8_ThrowsExactlyOnMalformedChain ==
    pc = "composed" =>
        (~output.ok <=>
            \/ Len(input) = 0
            \/ input[1].kind # "File"
            \/ input[Len(input)].kind \notin {"Message", "Enum", "Service"}
            \/ \E k \in 2..Len(input) : input[k].name = <<>>)

\* What C8 adds for the constructor: a chain that is not well formed makes it
\* throw, on that chain or on a repeated name before it.
C8_MalformedChainAbortsConstruction ==
    [][(Constructs /\ ~AllWellFormed(data)) =>
         pc' = "failed" /\ error' \in {"MalformedChain", "DuplicateName"}]_vars

\* Composition threw on a chain from a file to a field
C8_Witness ==
    /\ pc = "composed" /\ ~output.ok
    /\ Len(input) = 3
    /\ input[1].kind = "File" /\ input[3].kind = "Field"
    /\ \A k \in 2..3 : input[k].name # <<>>

-----------------------------------------------------------------------------
(* C9 *)

\* C9: once the table is constructed, no call of normalizeTypeName,
\* resolveTypeName, peekTypeName or makeTypeName, whether it returns or throws,
\* changes the forward or the reverse map, and a call made again returns what
\* it returned before.
C9_LookupsLeaveTheTable ==
    [][pc = "built" =>
         /\ names' = names /\ reverse' = reverse /\ pc' = "built"
         /\ (result'.op = result.op /\ result'.arg = result.arg) => result' = result]_vars

\* resolveTypeName threw on a table that holds two names
C9_Witness ==
    /\ pc = "built" /\ Cardinality(DOMAIN names) = 2
    /\ result.op = "resolveTypeName" /\ ~result.ok

=============================================================================
